---- MODULE Spec2Model ----
(***************************************************************************)
(* Model of the concurrent crawl engine of docs-tools' link checker        *)
(* (src/src/commands/link_check): the frontier queue, the Visited set, the *)
(* wave dispatcher run_queue, the per-entry worker process_url_parallel,   *)
(* the two network strategies and the success/failure counters.            *)
(*                                                                         *)
(* URLs are records whose scheme and path are sequences of one-character   *)
(* strings, so that the textual operations of the code (starts_with,       *)
(* ends_with, split('/'), pop of a trailing '/') are computed, not assumed. *)
(***************************************************************************)
EXTENDS Naturals, Integers, Sequences, FiniteSets, Bags, TLC

\* ------------------------------------------------------------------ bounds

\* run_queue takes max_concurrent as a parameter (check passes 10); the model
\* runs run_queue with this scaled-down value.
MaxConcurrent == 2

\* Largest number of link tokens the extractor returns for one page.
MaxLinks == 2

\* ------------------------------------------------------- program constants

\* const MAX_PATH_DEPTH: usize = 20 (extract_links)
MAX_PATH_DEPTH == 20

\* ----------------------------------------------------------- text helpers

\* str::starts_with
StrStartsWith(s, p) == Len(p) <= Len(s) /\ SubSeq(s, 1, Len(p)) = p

\* str::ends_with
StrEndsWith(s, p) == Len(p) <= Len(s) /\ SubSeq(s, Len(s) - Len(p) + 1, Len(s)) = p

\* char::to_lowercase on the letters the model's URLs use
LowerChar(c) ==
    CASE c = "P" -> "p"
      [] c = "N" -> "n"
      [] c = "G" -> "g"
      [] OTHER -> c

\* str::to_lowercase
to_lowercase(s) == [i \in 1..Len(s) |-> LowerChar(s[i])]

RECURSIVE Repeat(_, _)
Repeat(s, n) == IF n = 0 THEN <<>> ELSE s \o Repeat(s, n - 1)

\* ------------------------------------------------------------------- URLs

None == <<>>
Some(x) == <<x>>

\* url::Url as the code reads it: scheme(), host_str(), path(), query(), fragment()
Url(scheme, host, path, query, fragment) ==
    [scheme |-> scheme, host |-> host, path |-> path, query |-> query, fragment |-> fragment]

HTTPS == <<"h", "t", "t", "p", "s">>
HTTP == <<"h", "t", "t", "p">>
HTTPX == <<"h", "t", "t", "p", "x">>
FTP == <<"f", "t", "p">>
MAILTO == <<"m", "a", "i", "l", "t", "o">>

\* Schemes whose Url::origin() is a (scheme, host, port) tuple; every other
\* scheme has an opaque origin, which equals no origin (not even itself).
TupleOriginSchemes == {HTTPS, HTTP, FTP}

DefaultPort(scheme) ==
    CASE scheme = HTTPS -> 443
      [] scheme = HTTP -> 80
      [] scheme = FTP -> 21
      [] OTHER -> 0

\* Url::origin()
origin(u) ==
    IF u.scheme \in TupleOriginSchemes
    THEN <<"Tuple", u.scheme, u.host, DefaultPort(u.scheme)>>
    ELSE <<"Opaque">>

\* Faulty variant: an origin comparison that looks at the scheme only
origin_eq_scheme_only(a, b) == a.scheme = b.scheme

\* Origin == Origin: two opaque origins are never equal
origin_eq(a, b) == origin(a)[1] = "Tuple" /\ origin(a) = origin(b)

\* impl StartsWith<Url> for Url
starts_with(u, base) == origin_eq(u, base) /\ StrStartsWith(u.path, base.path)

NonHtmlExtensions ==
    { <<".", "s", "v", "g">>, <<".", "p", "n", "g">>, <<".", "j", "p", "g">>,
      <<".", "j", "p", "e", "g">>, <<".", "g", "i", "f">>, <<".", "i", "c", "o">>,
      <<".", "c", "s", "s">>, <<".", "j", "s">>, <<".", "j", "s", "o", "n">>,
      <<".", "w", "o", "f", "f">>, <<".", "w", "o", "f", "f", "2">>,
      <<".", "t", "t", "f">>, <<".", "e", "o", "t">> }

\* Content-Type header values the server may send (None: header absent)
ContentTypes == {None, Some("text/html; charset=utf-8"), Some("application/json")}

\* content_type.contains("text/html")
ContainsTextHtml(ct) == ct \in {"text/html", "text/html; charset=utf-8"}

\* utils::is_html
is_html(u, content_type) ==
    LET path == to_lowercase(u.path)
        is_non_html_extension == \E ext \in NonHtmlExtensions : StrEndsWith(path, ext)
    IN  IF is_non_html_extension THEN FALSE
        ELSE IF content_type # None THEN ContainsTextHtml(content_type[1])
        ELSE TRUE

\* Faulty variant: a normalization that keeps the query
normalize_url_keeps_query(u) ==
    LET path == u.path
        popped == IF StrEndsWith(path, <<"/">>) /\ Len(path) > 1
                  THEN SubSeq(path, 1, Len(path) - 1)
                  ELSE path
    IN  [u EXCEPT !.fragment = None, !.path = popped]

\* utils::normalize_url
normalize_url(u) ==
    LET path == u.path
        popped == IF StrEndsWith(path, <<"/">>) /\ Len(path) > 1
                  THEN SubSeq(path, 1, Len(path) - 1)
                  ELSE path
    IN  [u EXCEPT !.fragment = None, !.query = None, !.path = popped]

\* path().split('/').filter(|s| !s.is_empty()).count()
PathDepth(u) ==
    Cardinality({i \in 1..Len(u.path) :
                    u.path[i] # "/" /\ (i = 1 \/ u.path[i - 1] = "/")})

\* Faulty variant: a depth filter that lets every URL through
depth_ok_always(u) == TRUE

\* the depth filter of extract_links
depth_ok(u) == ~(PathDepth(u) > MAX_PATH_DEPTH)

\* scheme().starts_with("http")
scheme_ok(u) == StrStartsWith(u.scheme, HTTP)

\* ------------------------------------------------------- the URLs modelled

PathD == <<"/", "d">>
\* "/d" followed by n - 1 further segments "/a": a path of n segments
DeepPath(n) == PathD \o Repeat(<<"/", "a">>, n - 1)

UrlBase == Url(HTTPS, "a.com", PathD, None, None)
UrlRoot == Url(HTTPS, "a.com", <<"/">>, None, None)
UrlX == Url(HTTPS, "a.com", PathD \o <<"/", "x">>, None, None)
UrlXSlash == Url(HTTPS, "a.com", PathD \o <<"/", "x", "/">>, None, None)
UrlXQF == Url(HTTPS, "a.com", PathD \o <<"/", "x">>, Some("q=1"), Some("f"))
UrlY == Url(HTTPS, "a.com", PathD \o <<"/", "y">>, None, None)
UrlPng == Url(HTTPS, "a.com", PathD \o <<"/", "i", ".", "P", "N", "G">>, None, None)
UrlSibling == Url(HTTPS, "a.com", PathD \o <<"-", "a">>, None, None)
UrlExt == Url(HTTPS, "b.com", <<"/">>, None, None)
UrlExtY == Url(HTTPS, "b.com", <<"/", "y">>, None, None)
UrlHttpBase == Url(HTTP, "a.com", PathD, None, None)
UrlMailto == Url(MAILTO, "", <<"m">>, None, None)
UrlFtp == Url(FTP, "a.com", <<"/", "f">>, None, None)
UrlHttpx == Url(HTTPX, "b.com", <<"/">>, None, None)
UrlDeep20 == Url(HTTPS, "a.com", DeepPath(MAX_PATH_DEPTH), None, None)
UrlDeep21 == Url(HTTPS, "a.com", DeepPath(MAX_PATH_DEPTH + 1), None, None)

\* The --start argument as Url::parse sees it: Some(u) parses to u, and
\* Unparsable is an argument that Url::parse rejects.
Arg(u) == Some(u)
Unparsable == None

\* The environments explored: the constructor's arguments (base, internal_only),
\* the --start arguments tried, and the URLs the site's pages link to.
Env(base, io, starts, site) ==
    [base |-> base, internal_only |-> io, starts |-> starts, site |-> site]

NarrowEnvironments ==
    { Env(UrlBase, FALSE, {Arg(UrlBase), Unparsable, Arg(UrlExt)}, {UrlBase, UrlExt}),
      Env(UrlBase, FALSE, {Arg(UrlBase), Arg(UrlXQF)}, {UrlX, UrlXSlash}),
      Env(UrlBase, FALSE, {Arg(UrlBase)}, {UrlXQF, UrlPng}),
      Env(UrlBase, FALSE, {Arg(UrlBase), Arg(UrlDeep21)}, {UrlDeep20, UrlDeep21}),
      Env(UrlBase, TRUE, {Arg(UrlBase), Arg(UrlRoot), Arg(UrlDeep21)}, {UrlPng, UrlExt}),
      Env(UrlBase, TRUE, {Arg(UrlBase)}, {UrlSibling, UrlExt}),
      Env(UrlBase, FALSE, {Arg(UrlBase), Arg(UrlHttpBase)}, {UrlMailto, UrlHttpx}),
      Env(UrlFtp, FALSE, {Arg(UrlFtp)}, {UrlFtp}) }

\* ... and one whose waves hold two distinct pages, each with links of its own
Environments ==
    NarrowEnvironments \cup {Env(UrlBase, FALSE, {Arg(UrlBase)}, {UrlX, UrlY})}

\* sequences of at most n elements of S
SeqsUpTo(S, n) == UNION {[1..k -> S] : k \in 0..n}

\* HTTP statuses a server may answer with
Statuses == {200, 404}

\* StatusCode::is_success
is_success(status) == status >= 200 /\ status < 300

\* ------------------------------------------------------------------ state

VARIABLES
    base_url,           \* LinkChecker.base_url
    internal_only,      \* LinkChecker.internal_only
    env,                \* the start arguments and the site's link vocabulary
    pc,                 \* position of check/run_queue
    result,             \* what check returned
    queue,              \* the frontier: VecDeque<UrlWithReferrer>
    workers,            \* the futures of the latest batch, in stream order
    visited,            \* Visited.visited: HashSet<Url>
    successful_checks,  \* AtomicUsize
    failed_checks,      \* AtomicUsize
    progress_bar,       \* Option<ProgressBar>
    pb_lock,            \* holder of the progress_bar mutex (0: free)
    visited_lock,       \* holder of the Visited mutex (0: free)
    queue_lock,         \* holder of the frontier mutex (0: free)
    wave,               \* history: number of non-empty batches drained
    log,                \* history: bag of <<event, url>>
    npushed,            \* history: entries ever pushed to the frontier
    ndequeued           \* history: entries ever popped from the frontier

vars ==
    <<base_url, internal_only, env, pc, result, queue, workers, visited,
      successful_checks, failed_checks, progress_bar, pb_lock, visited_lock,
      queue_lock, wave, log, npushed, ndequeued>>

config == <<base_url, internal_only, env>>
locks == <<pb_lock, visited_lock, queue_lock>>
counters == <<successful_checks, failed_checks>>

\* UrlWithReferrer; born and seq are history: the wave during which the entry
\* was pushed, and its rank among the entries ever pushed
Entry(u, referrer, born, seq) ==
    [url |-> u, referrer |-> referrer, born |-> born, seq |-> seq]

\* the future of one batch entry: its position, the response it got from the
\* network, its NextTargets and the Result<()> it returned
Worker(e) == [url |-> e.url, referrer |-> e.referrer, born |-> e.born, seq |-> e.seq,
              pc |-> "start", resp |-> None, next |-> <<>>, ret |-> "pending"]

Logged(event, u) == log (+) SetToBag({<<event, u>>})

RECURSIVE LoggedAll(_, _, _)
LoggedAll(l, event, us) ==
    IF us = <<>> THEN l
    ELSE LoggedAll(l (+) SetToBag({<<event, Head(us)>>}), event, Tail(us))

\* LinkChecker::new, in one of the given environments
InitIn(envs) ==
    /\ \E e \in envs :
          /\ env = e
          /\ base_url = e.base
          /\ internal_only = e.internal_only
    /\ pc = "new"
    /\ result = "pending"
    /\ queue = <<>>
    /\ workers = <<>>
    /\ visited = {}
    /\ successful_checks = 0
    /\ failed_checks = 0
    /\ progress_bar = None
    /\ pb_lock = 0
    /\ visited_lock = 0
    /\ queue_lock = 0
    /\ wave = 0
    /\ log = EmptyBag
    /\ npushed = 0
    /\ ndequeued = 0

Init == InitIn(Environments)

\* ------------------------------------------------- check and run_queue

\* check: Url::parse(start_url)? fails
CheckParseError ==
    /\ pc = "new"
    /\ \E arg \in env.starts : arg = Unparsable
    /\ pc' = "done"
    /\ result' = "ErrParse"
    /\ UNCHANGED <<config, queue, workers, visited, counters, progress_bar, locks,
                   wave, log, npushed, ndequeued>>

\* check: the start URL's origin is not the base URL's: bail
CheckOriginMismatch ==
    /\ pc = "new"
    /\ \E arg \in env.starts :
          /\ arg # Unparsable
          /\ ~origin_eq(arg[1], base_url)
    /\ pc' = "done"
    /\ result' = "ErrOrigin"
    /\ UNCHANGED <<config, queue, workers, visited, counters, progress_bar, locks,
                   wave, log, npushed, ndequeued>>

\* check: install the progress bar, seed the frontier and enter run_queue
CheckSeed ==
    /\ pc = "new"
    /\ pb_lock = 0
    /\ \E arg \in env.starts :
          /\ arg # Unparsable
          /\ origin_eq(arg[1], base_url)
          /\ queue' = Append(queue, Entry(arg[1], None, wave, npushed + 1))
    /\ progress_bar' = Some("pb")
    /\ npushed' = npushed + 1
    /\ pc' = "drain"
    /\ UNCHANGED <<config, result, workers, visited, counters, locks, wave, log, ndequeued>>

\* run_queue's inner loop: pop_front into batch until the queue is empty or the
\* batch holds max entries; the result is <<batch, what is left of the queue>>
RECURSIVE drain_loop(_, _, _)
drain_loop(q, batch, max) ==
    IF q = <<>> THEN <<batch, q>>
    ELSE LET grown == Append(batch, Head(q))
         IN  IF Len(grown) >= max THEN <<grown, Tail(q)>>
             ELSE drain_loop(Tail(q), grown, max)

\* Faulty variant: a drain that reads the front of the queue without removing it
drain_peek(q, max) == <<drain_loop(q, <<>>, max)[1], q>>

\* Faulty variant: a drain that pops from the back of the queue
drain_back(q, max) ==
    LET n == IF Len(q) < max THEN Len(q) ELSE max
    IN  <<[i \in 1..n |-> q[Len(q) + 1 - i]], SubSeq(q, 1, Len(q) - n)>>

\* Faulty variant: a drain that takes the whole queue
drain_all(q, max) == <<q, <<>>>>

drain_batch(q, max) == drain_loop(q, <<>>, max)

\* run_queue: drain a non-empty batch and start processing it
DrainBatch ==
    /\ pc = "drain"
    /\ queue_lock = 0
    /\ LET d == drain_batch(queue, MaxConcurrent)
       IN  /\ d[1] # <<>>
           /\ workers' = [i \in 1..Len(d[1]) |-> Worker(d[1][i])]
           /\ queue' = d[2]
           /\ ndequeued' = ndequeued + Len(d[1])
    /\ wave' = wave + 1
    /\ pc' = "wave"
    /\ UNCHANGED <<config, result, visited, counters, progress_bar, locks, log, npushed>>

\* run_queue: the batch is empty: break, return Ok(())
DrainEmpty ==
    /\ pc = "drain"
    /\ queue_lock = 0
    /\ drain_batch(queue, MaxConcurrent)[1] = <<>>
    /\ pc' = "finish"
    /\ UNCHANGED <<config, result, queue, workers, visited, counters, progress_bar,
                   locks, wave, log, npushed, ndequeued>>

\* Faulty variant: a barrier that opens as soon as a future returned an error
batch_complete_on_error(ws) ==
    \/ \E i \in 1..Len(ws) : ws[i].ret = "Err"
    \/ \A i \in 1..Len(ws) : ws[i].pc = "done"

\* Faulty variant: a barrier that opens at the first result
batch_complete_first(ws) == \E i \in 1..Len(ws) : ws[i].pc = "done"

\* Faulty variant: a barrier that waits for max results, whatever the batch's size
batch_complete_full(ws) ==
    Len(ws) = MaxConcurrent /\ \A i \in 1..Len(ws) : ws[i].pc = "done"

\* collect() has every future's result
batch_complete(ws) == \A i \in 1..Len(ws) : ws[i].pc = "done"

\* Faulty variant: a loop over the results that drops the errors
batch_result_ignored(ws) == "Ok"

\* for result in results { result? }
batch_result(ws) == IF \E i \in 1..Len(ws) : ws[i].ret = "Err" THEN "Err" ELSE "Ok"

\* run_queue: every result of the batch is Ok: next iteration
WaveOk ==
    /\ pc = "wave"
    /\ batch_complete(workers)
    /\ batch_result(workers) = "Ok"
    /\ pc' = "drain"
    /\ UNCHANGED <<config, result, queue, workers, visited, counters, progress_bar,
                   locks, wave, log, npushed, ndequeued>>

\* run_queue: a result of the batch is Err: run_queue returns it, and check with it
WaveErr ==
    /\ pc = "wave"
    /\ batch_complete(workers)
    /\ batch_result(workers) = "Err"
    /\ result' = "ErrDecode"
    /\ pc' = "done"
    /\ UNCHANGED <<config, queue, workers, visited, counters, progress_bar, locks,
                   wave, log, npushed, ndequeued>>

\* Faulty variant: a verdict that tolerates one failure
fail_on_error_above_one(failed) == IF failed > 1 THEN "ErrFailed" ELSE "Ok"

\* fail_on_error
fail_on_error(failed) == IF failed > 0 THEN "ErrFailed" ELSE "Ok"

\* check, after run_queue returned Ok: finish the progress bar, display_summary,
\* fail_on_error
Finish ==
    /\ pc = "finish"
    /\ pb_lock = 0
    /\ progress_bar' = None
    /\ result' = fail_on_error(failed_checks)
    /\ pc' = "done"
    /\ UNCHANGED <<config, queue, workers, visited, counters, locks,
                   wave, log, npushed, ndequeued>>

\* ------------------------------------------------- process_url_parallel

\* buffer_unordered(max): futures enter the in-progress set in stream order
\* while it holds fewer than max unfinished futures
admitted(ws, i, max) == Cardinality({j \in 1..(i - 1) : ws[j].pc # "done"}) < max

Running(i) ==
    /\ pc = "wave"
    /\ i \in 1..Len(workers)
    /\ admitted(workers, i, MaxConcurrent)

\* the future returns r
Returned(w, r) == [w EXCEPT !.pc = "done", !.ret = r]

At(w, where) == [w EXCEPT !.pc = where]

\* Faulty variant: a mutex that excludes nobody
lock_free_always(holder) == TRUE

\* a mutex can be taken when nobody holds it
lock_free(holder) == holder = 0

\* Faulty variant: a guard that is not dropped: the mutex stays with its holder
unlock_leaked(holder) == holder

\* the MutexGuard is dropped at the end of its block: nobody holds the mutex
unlock(holder) == 0

\* progress_bar.lock()
PbLock(i) ==
    /\ Running(i)
    /\ workers[i].pc = "start"
    /\ lock_free(pb_lock)
    /\ pb_lock' = i
    /\ workers' = [workers EXCEPT ![i] = At(@, "pb")]
    /\ UNCHANGED <<config, pc, result, queue, visited, counters, progress_bar,
                   visited_lock, queue_lock, wave, log, npushed, ndequeued>>

\* curr_checking under the lock, unlock, then the scheme guard
PbUpdate(i) ==
    /\ Running(i)
    /\ workers[i].pc = "pb"
    /\ pb_lock' = unlock(pb_lock)
    /\ IF ~scheme_ok(workers[i].url)
       THEN /\ workers' = [workers EXCEPT ![i] = Returned(@, "Ok")]
            /\ log' = Logged("SchemeRejected", workers[i].url)
       ELSE /\ workers' = [workers EXCEPT ![i] = At(@, "mv_lock")]
            /\ log' = log
    /\ UNCHANGED <<config, pc, result, queue, visited, counters, progress_bar,
                   visited_lock, queue_lock, wave, npushed, ndequeued>>

\* mark_visited: normalize_url, then self.visited.lock()
MvLock(i) ==
    /\ Running(i)
    /\ workers[i].pc = "mv_lock"
    /\ lock_free(visited_lock)
    /\ visited_lock' = i
    /\ workers' = [workers EXCEPT ![i] = At(@, "mv_contains")]
    /\ UNCHANGED <<config, pc, result, queue, visited, counters, progress_bar,
                   pb_lock, queue_lock, wave, log, npushed, ndequeued>>

\* Faulty variant: a membership test that never finds the key
contains_never(set, key) == FALSE

\* visited.contains(&normalized_url)
contains(set, key) == key \in set

\* mark_visited: the key is present: unlock, return true; the caller returns Ok
MvFound(i) ==
    /\ Running(i)
    /\ workers[i].pc = "mv_contains"
    /\ contains(visited, normalize_url(workers[i].url))
    /\ visited_lock' = unlock(visited_lock)
    /\ workers' = [workers EXCEPT ![i] = Returned(@, "Ok")]
    /\ log' = Logged("AlreadyVisited", workers[i].url)
    /\ UNCHANGED <<config, pc, result, queue, visited, counters, progress_bar,
                   pb_lock, queue_lock, wave, npushed, ndequeued>>

\* mark_visited: the key is absent: go on to insert it
MvAbsent(i) ==
    /\ Running(i)
    /\ workers[i].pc = "mv_contains"
    /\ ~contains(visited, normalize_url(workers[i].url))
    /\ workers' = [workers EXCEPT ![i] = At(@, "mv_insert")]
    /\ UNCHANGED <<config, pc, result, queue, visited, counters, progress_bar,
                   locks, wave, log, npushed, ndequeued>>

\* Faulty variant: an internal_only guard that rejects nothing
internal_only_rejects_never(io, u, base) == FALSE

\* the internal_only guard of process_url_parallel
internal_only_rejects(io, u, base) == io /\ ~starts_with(u, base)

\* Faulty variant: a match that fetches and parses every URL
strategy_always_fetch(u, base) == "fetch"

\* the strategy chosen by process_url_parallel's match
strategy(u, base) == IF starts_with(u, base) /\ is_html(u, None) THEN "fetch" ELSE "check"

\* mark_visited: insert, unlock, return false; then the caller's internal_only
\* guard and its match, up to the network call it awaits
MvInsert(i) ==
    /\ Running(i)
    /\ workers[i].pc = "mv_insert"
    /\ visited' = visited \cup {normalize_url(workers[i].url)}
    /\ visited_lock' = unlock(visited_lock)
    /\ LET u == workers[i].url
       IN  IF internal_only_rejects(internal_only, u, base_url)
           THEN /\ workers' = [workers EXCEPT ![i] = Returned(@, "Ok")]
                /\ log' = Logged("InternalOnlyRejected", u)
           ELSE /\ workers' = [workers EXCEPT ![i] = At(@, strategy(u, base_url))]
                /\ log' = Logged(strategy(u, base_url), u)
    /\ UNCHANGED <<config, pc, result, queue, counters, progress_bar,
                   pb_lock, queue_lock, wave, npushed, ndequeued>>

\* ------------------------------------- check_response_internal_maybe_html

\* what send() or lychee's check() may resolve to: an error or a status
NetResults == {[ok |-> FALSE, status |-> 0]} \cup {[ok |-> TRUE, status |-> st] : st \in Statuses}

\* Faulty variant: only a transport error is a Failure; the status is not looked at
is_failure_transport_only(r) == ~r.ok

\* the response is a Failure: a transport error or a status that is not 2xx
is_failure(r) == ~r.ok \/ ~is_success(r.status)

\* Faulty variant: a decrement in place of the increment
fetch_sub(counter, val) == counter - val

\* Faulty variant: an increment that is lost
fetch_add_lost(counter, val) == counter

\* AtomicUsize::fetch_add: the counter's new value
fetch_add(counter, val) == counter + val

\* the future got response r from the network
Got(w, r) == [w EXCEPT !.resp = Some(r)]

\* send() failed or answered with a non-2xx status: count a failure,
\* CheckResult::Failure, and the future returns Ok
FetchFailure(i) ==
    /\ Running(i)
    /\ workers[i].pc = "fetch"
    /\ \E r \in NetResults :
          /\ is_failure(r)
          /\ workers' = [workers EXCEPT ![i] = Returned(Got(@, r), "Ok")]
    /\ failed_checks' = fetch_add(failed_checks, 1)
    /\ UNCHANGED <<config, pc, result, queue, visited, successful_checks, progress_bar,
                   locks, wave, log, npushed, ndequeued>>

\* send() answered 2xx: count a success, then sniff the content type:
\* not HTML is Success(None), HTML goes on to read the body
FetchSuccess(i) ==
    /\ Running(i)
    /\ workers[i].pc = "fetch"
    /\ \E r \in NetResults, content_type \in ContentTypes :
          /\ ~is_failure(r)
          /\ IF ~is_html(workers[i].url, content_type)
             THEN workers' = [workers EXCEPT ![i] = Returned(Got(@, r), "Ok")]
             ELSE workers' = [workers EXCEPT ![i] = At(Got(@, r), "text")]
    /\ successful_checks' = fetch_add(successful_checks, 1)
    /\ UNCHANGED <<config, pc, result, queue, visited, failed_checks, progress_bar,
                   locks, wave, log, npushed, ndequeued>>

\* response.text() failed: bail, and process_url_parallel's ? returns the error
TextError(i) ==
    /\ Running(i)
    /\ workers[i].pc = "text"
    /\ workers' = [workers EXCEPT ![i] = Returned(@, "Err")]
    /\ log' = Logged("DecodeError", workers[i].url)
    /\ UNCHANGED <<config, pc, result, queue, visited, counters, progress_bar,
                   locks, wave, npushed, ndequeued>>

\* Faulty variant: an extract_links without its internal_only filter
extract_links_unfiltered(parsed, io, base) ==
    SelectSeq(parsed, LAMBDA u : depth_ok(u))

\* extract_links' filters, on the URLs its filter_map parsed from the page
extract_links(parsed, io, base) ==
    LET shallow == SelectSeq(parsed, LAMBDA u : depth_ok(u))
    IN  SelectSeq(shallow, LAMBDA u : ~io \/ starts_with(u, base))

\* history: the URLs that pass the depth filter and that extract_links'
\* internal_only filter drops
dropped_by_internal_only(parsed, io, base) ==
    SelectSeq(parsed, LAMBDA u : depth_ok(u) /\ ~(~io \/ starts_with(u, base)))

\* response.text() succeeded: extract_links, Success(Some(next)); the caller
\* goes on to lock the queue
TextOk(i) ==
    /\ Running(i)
    /\ workers[i].pc = "text"
    /\ \E parsed \in SeqsUpTo(env.site, MaxLinks) :
          /\ workers' = [workers EXCEPT ![i] =
                            [@ EXCEPT !.pc = "q_lock",
                                      !.next = extract_links(parsed, internal_only, base_url)]]
          /\ log' = LoggedAll(LoggedAll(log, "DepthRejected",
                                        SelectSeq(parsed, LAMBDA u : ~depth_ok(u))),
                              "InternalOnlyFiltered",
                              dropped_by_internal_only(parsed, internal_only, base_url))
    /\ UNCHANGED <<config, pc, result, queue, visited, counters, progress_bar,
                   locks, wave, npushed, ndequeued>>

\* queue.lock()
QueueLock(i) ==
    /\ Running(i)
    /\ workers[i].pc = "q_lock"
    /\ lock_free(queue_lock)
    /\ queue_lock' = i
    /\ workers' = [workers EXCEPT ![i] = At(@, "push")]
    /\ UNCHANGED <<config, pc, result, queue, visited, counters, progress_bar,
                   pb_lock, visited_lock, wave, log, npushed, ndequeued>>

\* push_back every next target with this URL as referrer, unlock, return Ok
Push(i) ==
    /\ Running(i)
    /\ workers[i].pc = "push"
    /\ LET next == workers[i].next
       IN  /\ queue' = queue \o [k \in 1..Len(next) |->
                                    Entry(next[k], Some(workers[i].url), wave, npushed + k)]
           /\ npushed' = npushed + Len(next)
    /\ queue_lock' = unlock(queue_lock)
    /\ workers' = [workers EXCEPT ![i] = [Returned(@, "Ok") EXCEPT !.next = <<>>]]
    /\ UNCHANGED <<config, pc, result, visited, counters, progress_bar,
                   pb_lock, visited_lock, wave, log, ndequeued>>

\* ------------------------------------------------ check_non_internal_html

\* lychee's check failed or answered with a non-2xx status: count a failure
CheckFailure(i) ==
    /\ Running(i)
    /\ workers[i].pc = "check"
    /\ \E r \in NetResults :
          /\ is_failure(r)
          /\ workers' = [workers EXCEPT ![i] = Returned(Got(@, r), "Ok")]
    /\ failed_checks' = fetch_add(failed_checks, 1)
    /\ UNCHANGED <<config, pc, result, queue, visited, successful_checks, progress_bar,
                   locks, wave, log, npushed, ndequeued>>

\* lychee's check answered 2xx: count a success
CheckSuccess(i) ==
    /\ Running(i)
    /\ workers[i].pc = "check"
    /\ \E r \in NetResults :
          /\ ~is_failure(r)
          /\ workers' = [workers EXCEPT ![i] = Returned(Got(@, r), "Ok")]
    /\ successful_checks' = fetch_add(successful_checks, 1)
    /\ UNCHANGED <<config, pc, result, queue, visited, failed_checks, progress_bar,
                   locks, wave, log, npushed, ndequeued>>

\* ------------------------------------------------------ the specification

WorkerStep(i) ==
    \/ PbLock(i)
    \/ PbUpdate(i)
    \/ MvLock(i)
    \/ MvFound(i)
    \/ MvAbsent(i)
    \/ MvInsert(i)
    \/ FetchFailure(i)
    \/ FetchSuccess(i)
    \/ TextError(i)
    \/ TextOk(i)
    \/ QueueLock(i)
    \/ Push(i)
    \/ CheckFailure(i)
    \/ CheckSuccess(i)

Dispatcher ==
    \/ CheckParseError
    \/ CheckOriginMismatch
    \/ CheckSeed
    \/ DrainBatch
    \/ DrainEmpty
    \/ WaveOk
    \/ WaveErr
    \/ Finish

Next ==
    \/ CheckParseError
    \/ CheckOriginMismatch
    \/ CheckSeed
    \/ DrainBatch
    \/ DrainEmpty
    \/ WaveOk
    \/ WaveErr
    \/ Finish
    \/ \E i \in 1..Len(workers) : PbLock(i)
    \/ \E i \in 1..Len(workers) : PbUpdate(i)
    \/ \E i \in 1..Len(workers) : MvLock(i)
    \/ \E i \in 1..Len(workers) : MvFound(i)
    \/ \E i \in 1..Len(workers) : MvAbsent(i)
    \/ \E i \in 1..Len(workers) : MvInsert(i)
    \/ \E i \in 1..Len(workers) : FetchFailure(i)
    \/ \E i \in 1..Len(workers) : FetchSuccess(i)
    \/ \E i \in 1..Len(workers) : TextError(i)
    \/ \E i \in 1..Len(workers) : TextOk(i)
    \/ \E i \in 1..Len(workers) : QueueLock(i)
    \/ \E i \in 1..Len(workers) : Push(i)
    \/ \E i \in 1..Len(workers) : CheckFailure(i)
    \/ \E i \in 1..Len(workers) : CheckSuccess(i)

Spec == Init /\ [][Next]_vars

\* The executor polls every future that can make progress, every network call
\* eventually returns, and check's own task is never starved.
FairSpec ==
    /\ InitIn(NarrowEnvironments)
    /\ [][Next]_vars
    /\ WF_vars(Dispatcher)
    /\ \A i \in 1..(MaxConcurrent + 1) : WF_vars(WorkerStep(i))

\* ------------------------------------------------- history, as the claims read it

Events == BagToSet(log)

RECURSIVE Copies(_)
\* how many times the events of S were logged
Copies(S) ==
    IF S = {} THEN 0
    ELSE LET e == CHOOSE x \in S : TRUE
         IN  CopiesIn(e, log) + Copies(S \ {e})

\* how many events of the given kinds were logged for URLs of Visited Key key
Count(kinds, key) ==
    Copies({e \in Events : e[1] \in kinds /\ normalize_url(e[2]) = key})

\* the keys of the URLs the events are about
EventKeys == {normalize_url(e[2]) : e \in Events}

\* a network side effect: the internal GET or the external check
NetworkCalls == {"fetch", "check"}

Indexes == 1..Len(workers)

\* ------------------------------------------------------------------ C1

\* C1: under every interleaving, the network side effect (internal GET or
\* external check) is performed at most once per Visited Key, however often
\* and in whichever waves URLs with that key are enqueued.
C1_AtMostOnceDispatch ==
    \A key \in EventKeys : Count(NetworkCalls, key) <= 1

\* Two different URLs with one key sit in the same wave; one is being fetched
\* and the other was skipped as already visited.
C1_Witness ==
    \E i, j \in Indexes :
        /\ workers[i].url # workers[j].url
        /\ normalize_url(workers[i].url) = normalize_url(workers[j].url)
        /\ workers[i].pc = "fetch"
        /\ workers[j].pc = "done"
        /\ wave > 1

\* ------------------------------------------------------------------ C2

\* mark_visited returned false: the caller went on past the visited guard
ReturnedFalse == {"fetch", "check", "InternalOnlyRejected"}
\* mark_visited returned true
ReturnedTrue == {"AlreadyVisited"}

C3_StopsOnlyByEmptyDrain ==
    (pc = "done" /\ wave > 0) => result \in {"Ok", "ErrFailed"}

\* C3, amended: every network call returning, run_queue always stops, self-links
\* and cycles included: it reaches a drain that yields an empty batch, or it
\* returns the body decode error of a finished wave.
C3_Terminates ==
    (pc = "drain") ~> (pc = "finish" \/ (pc = "done" /\ result = "ErrDecode"))

\* The start page linked to itself; the rediscovered entry was skipped as
\* already visited and run_queue has left its loop on an empty batch.
C3_Witness ==
    /\ pc = "finish"
    /\ UrlBase \in env.site
    /\ CopiesIn(<<"AlreadyVisited", UrlBase>>, log) > 0

\* ------------------------------------------------------------------ C4

\* a transport error or a non-2xx status, as the claim words it
FailedResponse(r) == ~r.ok \/ r.status \notin 200..299

DecodeErrors == Copies({e \in Events : e[1] = "DecodeError"})

\* the step in which future i gets a failed response from the network
C4_FailureStep(i) ==
    /\ i \in Indexes
    /\ workers[i].pc \in NetworkCalls
    /\ workers'[i].resp # None
    /\ FailedResponse(workers'[i].resp[1])

\* C4: a transport error or a non-2xx status for one URL is one increment of
\* failed and nothing else: the future returns Ok, the URL is not fetched or
\* checked again, the wave and the frontier are left alone, and unless a body
\* decode error occurs run_queue ends by an empty drain with every entry ever
\* pushed dequeued.
C4_FailureContained ==
    /\ [][\A i \in 1..MaxConcurrent + 1 :
            C4_FailureStep(i) =>
                /\ failed_checks' = failed_checks + 1
                /\ successful_checks' = successful_checks
                /\ workers'[i].pc = "done" /\ workers'[i].ret = "Ok"
                /\ pc' = pc /\ queue' = queue /\ result' = result
                /\ \A j \in Indexes \ {i} : workers'[j] = workers[j]]_vars
    /\ [](\A i \in Indexes :
            /\ workers[i].ret = "Err" => ~FailedResponse(workers[i].resp[1])
            /\ (workers[i].resp # None /\ FailedResponse(workers[i].resp[1])) =>
                  /\ normalize_url(workers[i].url) \in visited
                  /\ Count(NetworkCalls, normalize_url(workers[i].url)) = 1)
    /\ []((pc = "done" /\ wave > 0 /\ DecodeErrors = 0) =>
            /\ result \in {"Ok", "ErrFailed"}
            /\ queue = <<>>
            /\ ndequeued = npushed
            /\ \A i \in Indexes : workers[i].pc = "done")

\* A failure in an earlier wave, successes around it, and the crawl ran on to
\* its third wave and to the verdict.
C4_Witness ==
    /\ pc = "done"
    /\ result = "ErrFailed"
    /\ wave >= 3
    /\ failed_checks >= 1
    /\ successful_checks >= 2
    /\ \A i \in Indexes : workers[i].resp = None

\* ------------------------------------------------------------------ C5

\* check is over, for a start URL that passed the pre-crawl checks
CrawlOver == pc = "done" /\ result \notin {"ErrParse", "ErrOrigin"}

\* C5 as stated: for a start URL that passes the pre-crawl checks, check
\* returns an error if and only if failed > 0 when the crawl ends.
C5_ErrorIffFailed ==
    CrawlOver => (result # "Ok" <=> failed_checks > 0)

\* C5, amended: check returns an error if and only if failed > 0 when the crawl
\* ends or a body decode error aborted it; a crawl with zero total checks
\* returns Ok, and so does one with only successes and no body decode error.
C5_ErrorIffFailedOrAborted ==
    CrawlOver =>
        /\ result # "Ok" <=> (failed_checks > 0 \/ DecodeErrors > 0)
        /\ result = "ErrDecode" <=> DecodeErrors > 0
        /\ successful_checks + failed_checks = 0 => result = "Ok"

\* The crawl ended with successes and exactly one failure, and check returned
\* the error of fail_on_error.
C5_Witness ==
    /\ CrawlOver
    /\ result = "ErrFailed"
    /\ failed_checks = 1
    /\ successful_checks > 0

\* ------------------------------------------------------------------ C6

\* entries that passed the scheme, visited and internal-only guards
Dispatches == Copies({e \in Events : e[1] \in NetworkCalls})

\* dispatched entries whose network call has not answered yet
AwaitingResponse == Cardinality({i \in Indexes : workers[i].pc \in NetworkCalls})

\* entries a guard rejected
Rejections ==
    Copies({e \in Events : e[1] \in {"SchemeRejected", "AlreadyVisited", "InternalOnlyRejected"}})

\* C6: every entry that reaches dispatch increments exactly one of successful
\* and failed, once, when its network call answers; an entry rejected by a guard
\* increments neither: successful + failed is the number of completed
\* dispatches in every reachable state, and every dequeued entry is accounted
\* for as a dispatch, a rejection or an entry still before the guards.
C6_CounterAccounting ==
    /\ successful_checks + failed_checks = Dispatches - AwaitingResponse
    /\ ndequeued = Dispatches + Rejections
                     + Cardinality({i \in Indexes : workers[i].pc \in
                          {"start", "pb", "mv_lock", "mv_contains", "mv_insert"}})

\* The crawl is over; an entry was rejected by the scheme guard, and dispatched
\* entries were counted on both counters.
C6_Witness ==
    /\ pc = "done"
    /\ \E e \in Events : e[1] = "SchemeRejected"
    /\ successful_checks > 0
    /\ failed_checks > 0
    /\ Rejections > 0

\* ------------------------------------------------------------------ C7

\* network operations in flight: GETs, body reads and external checks
InFlight ==
    Cardinality({i \in Indexes : workers[i].pc \in {"fetch", "text", "check"}})

\* C7: at most max_concurrent network operations are in flight at any time: a
\* drained batch never holds more than max_concurrent entries, and nothing is
\* in flight when the dispatcher is not waiting for a batch.
C7_BoundedParallelism ==
    /\ InFlight <= MaxConcurrent
    /\ Len(workers) <= MaxConcurrent
    /\ pc # "wave" => InFlight = 0

\* A full batch, every entry of which has a network operation in flight.
C7_Witness ==
    /\ pc = "wave"
    /\ Len(workers) = MaxConcurrent
    /\ InFlight = MaxConcurrent

\* ------------------------------------------------------------------ C8

\* C8: the dispatcher is at its drain (or past the loop) only when every entry
\* of the latest batch has finished, so an entry of the batch being processed was
\* pushed during an earlier wave: a link pushed while wave N is processed is
\* dequeued in wave N+1 or later.
C8_WaveBarrier ==
    /\ pc # "wave" => \A i \in Indexes : workers[i].pc = "done"
    /\ \A i \in Indexes : workers[i].born < wave
    /\ \A k \in 1..Len(queue) : queue[k].born <= wave

\* A link pushed during the current wave waits in the frontier while another
\* entry of this wave is still being processed.
C8_Witness ==
    /\ pc = "wave"
    /\ \E k \in 1..Len(queue) : queue[k].born = wave
    /\ \E i \in Indexes : workers[i].pc \in {"fetch", "text", "check"}

\* ------------------------------------------------------------------ C9

\* the Visited Keys of every URL of the environment: no link graph explored in
\* it has more distinct normalized URLs
DistinctUrls ==
    {normalize_url(u) : u \in env.site \cup {a[1] : a \in env.starts \ {Unparsable}}}

CeilDiv(a, b) == (a + b - 1) \div b

Fetches == Copies({e \in Events : e[1] = "fetch"})

\* C9 as stated: the number of non-empty waves is at most ceil(D / K).
C9_WavesAtMostCeilDK ==
    wave <= CeilDiv(Cardinality(DistinctUrls), MaxConcurrent)

\* C9, amended: every non-empty wave dequeues at least one entry and no entry
\* is dequeued twice, so the number of non-empty waves is at most the number
\* of entries ever pushed, which is at most 1 + L * D for pages of at most L
\* links each (one seed, and the links of each page fetched, once per key).
C9_WavesAtMostEntries ==
    /\ wave <= ndequeued
    /\ ndequeued + Len(queue) = npushed
    /\ npushed <= 1 + MaxLinks * Fetches
    /\ Fetches <= Cardinality(DistinctUrls)

\* A crawl that ran to its empty drain through more waves than ceil(D / K).
C9_Witness ==
    /\ pc = "finish"
    /\ wave > CeilDiv(Cardinality(DistinctUrls), MaxConcurrent)
    /\ wave = ndequeued

\* ----------------------------------------------------------------- C10

\* more than 20 non-empty '/'-separated segments
TooDeep(u) == PathDepth(u) > 20

\* C10 as stated: a URL with more than 20 path segments is never dispatched,
\* whether it comes from a page or is the start URL.
C10_DeepNeverDispatched ==
    \A e \in Events : e[1] \in NetworkCalls => ~TooDeep(e[2])

\* C10, amended: extract_links never hands over a URL with more than 20 path
\* segments, so no such URL enters the frontier, is dispatched or is counted
\* as an extracted link; the depth filter is applied at extraction only, and
\* the one URL deeper than that which can be dispatched is the start URL.
C10_DeepOnlyAsStart ==
    /\ \A k \in 1..Len(queue) : TooDeep(queue[k].url) => queue[k].referrer = None
    /\ \A i \in Indexes :
          /\ TooDeep(workers[i].url) => workers[i].referrer = None
          /\ \A k \in 1..Len(workers[i].next) : ~TooDeep(workers[i].next[k])
    /\ \A e \in Events :
          (e[1] \in NetworkCalls /\ TooDeep(e[2])) =>
              /\ Arg(e[2]) \in env.starts
              /\ CopiesIn(e, log) = 1

\* A page linked to a URL of 21 segments and to one of 20: the first was
\* dropped at extraction, the second was fetched, and the crawl ran to its end.
C10_Witness ==
    /\ pc = "finish"
    /\ CopiesIn(<<"DepthRejected", UrlDeep21>>, log) > 0
    /\ CopiesIn(<<"fetch", UrlDeep20>>, log) > 0
    /\ \A e \in Events : e[1] \in NetworkCalls => ~TooDeep(e[2])

\* ----------------------------------------------------------------- C11

\* the external checks made so far (lychee_client.check)
ExternalChecks == {e \in Events : e[1] = "check"}

\* C11 as stated: with internal_only set, the external link-validation
\* collaborator is never invoked.
C11_CheckNeverInvoked ==
    internal_only =>
        /\ ExternalChecks = {}
        /\ \A i \in Indexes : workers[i].pc # "check"

\* C11, amended: with internal_only set, the external link-validation
\* collaborator is never invoked for a URL that is not internal; it is invoked
\* only for internal URLs whose path ends in a non-HTML extension.
C11_CheckOnlyOfInternal ==
    internal_only =>
        /\ \A e \in ExternalChecks :
              /\ origin(e[2]) = origin(base_url)
              /\ StrStartsWith(e[2].path, base_url.path)
              /\ \E ext \in NonHtmlExtensions : StrEndsWith(to_lowercase(e[2].path), ext)
        /\ \A i \in Indexes :
              workers[i].pc = "check" => <<"check", workers[i].url>> \in ExternalChecks

\* With internal_only set, an entry that is not internal was dequeued and
\* dropped by the guard, without any network call, and the crawl ended.
C11_Witness ==
    /\ internal_only
    /\ pc = "finish"
    /\ \E e \in Events : e[1] = "InternalOnlyRejected" /\ ~starts_with(e[2], base_url)
    /\ Dispatches = 0

\* ----------------------------------------------------------------- C12

\* same origin as base_url and a path that has base_url's path as a textual prefix
Internal(u) ==
    /\ origin(u)[1] = "Tuple"
    /\ origin(u) = origin(base_url)
    /\ StrStartsWith(u.path, base_url.path)

\* C12 as stated: with internal_only set, every entry in the frontier, the
\* seed included, is internal.
C12_FrontierAllInternal ==
    internal_only => \A k \in 1..Len(queue) : Internal(queue[k].url)

\* C12, amended: with internal_only set, every extracted entry in the frontier
\* is internal; the seed has base_url's origin, but its path need not have
\* base_url's path as a prefix.
C12_ExtractedAllInternal ==
    internal_only =>
        /\ \A k \in 1..Len(queue) :
              IF queue[k].referrer = None
              THEN origin(queue[k].url) = origin(base_url)
              ELSE Internal(queue[k].url)
        /\ \A i \in Indexes : \A k \in 1..Len(workers[i].next) :
              Internal(workers[i].next[k])

\* With internal_only set, a page linked to an external URL and to an internal
\* one: the first was dropped at extraction and the second is in the frontier.
C12_Witness ==
    /\ internal_only
    /\ \E e \in Events : e[1] = "InternalOnlyFiltered" /\ ~Internal(e[2])
    /\ \E k \in 1..Len(queue) : queue[k].referrer # None /\ Internal(queue[k].url)

\* ----------------------------------------------------------------- C13

\* the --start arguments whose origin is not the base URL's
MismatchedStarts ==
    {arg \in env.starts \ {Unparsable} : origin(arg[1]) # origin(base_url)}

\* C13: a start URL whose origin differs from the base URL's is never seeded:
\* check returns the error before any crawl work, with the frontier never
\* seeded, no URL dequeued or dispatched, the Visited Set empty and both
\* counters at 0.
C13_OriginMismatchBeforeCrawl ==
    /\ result = "ErrOrigin" =>
          /\ pc = "done"
          /\ MismatchedStarts # {}
          /\ queue = <<>> /\ npushed = 0
          /\ workers = <<>> /\ ndequeued = 0 /\ wave = 0
          /\ log = EmptyBag
          /\ visited = {}
          /\ successful_checks = 0 /\ failed_checks = 0
    /\ \A k \in 1..Len(queue) :
          queue[k].referrer = None => Arg(queue[k].url) \notin MismatchedStarts
    /\ \A i \in Indexes :
          workers[i].referrer = None => Arg(workers[i].url) \notin MismatchedStarts

\* The start URL has the base URL's host but another scheme, and check
\* returned the origin error.
C13_Witness ==
    /\ result = "ErrOrigin"
    /\ Arg(UrlHttpBase) \in MismatchedStarts
    /\ UrlHttpBase.host = base_url.host

\* ----------------------------------------------------------------- C14

\* the scheme is exactly http or https
HttpOrHttps(u) == u.scheme \in {HTTP, HTTPS}

\* C14: a dequeued URL triggers a network operation only if its scheme is
\* exactly http or https; a URL with any other scheme is dropped without being
\* marked visited, without a network call and without incrementing a counter.
C14_OnlyHttpOrHttps ==
    /\ \A e \in Events : e[1] \in NetworkCalls => HttpOrHttps(e[2])
    /\ \A key \in visited : HttpOrHttps(key)
    /\ \A i \in Indexes :
          ~HttpOrHttps(workers[i].url) => workers[i].pc \in {"start", "pb", "done"}
    /\ successful_checks + failed_checks
          = Copies({e \in Events : e[1] \in NetworkCalls /\ HttpOrHttps(e[2])})
              - Cardinality({i \in Indexes : workers[i].pc \in NetworkCalls})

\* ----------------------------------------------------------------- C15

\* C15: once the body of a fetched page failed to decode, the crawl aborts:
\* no further wave is drained and nothing more is dequeued, run_queue's loop
\* is left only by returning the error, and check returns that error without
\* finishing the progress bar, the summary or the failed > 0 verdict; entries
\* still in the frontier stay there.
C15_DecodeAborts ==
    /\ [](DecodeErrors > 0 =>
            /\ pc \in {"wave", "done"}
            /\ pc = "done" => (result = "ErrDecode" /\ progress_bar # None))
    /\ [](result = "ErrDecode" => (pc = "done" /\ DecodeErrors > 0))
    /\ [][DecodeErrors > 0 =>
            /\ wave' = wave
            /\ ndequeued' = ndequeued
            /\ Len(workers') = Len(workers)
            /\ (pc = "done" => queue' = queue)]_vars

\* check returned the decode error while the frontier still holds entries
\* that another page of the same wave pushed.
C15_Witness ==
    /\ pc = "done"
    /\ result = "ErrDecode"
    /\ queue # <<>>
    /\ successful_checks >= 2

\* ----------------------------------------------------------------- C16

\* the path does not end in one of the non-HTML extensions
LooksLikeHtml(u) ==
    ~\E ext \in NonHtmlExtensions : StrEndsWith(to_lowercase(u.path), ext)

\* an internal, HTML-looking URL that was fetched (not checked externally)
FetchedPage(u) ==
    /\ Internal(u)
    /\ LooksLikeHtml(u)
    /\ CopiesIn(<<"fetch", u>>, log) = 1
    /\ CopiesIn(<<"check", u>>, log) = 0

\* C16: entries are pushed to the frontier only by the future of an internal,
\* HTML-looking URL whose fetch succeeded and whose body was read; the step in
\* which an external check answers, a fetch fails or a response is sniffed as
\* not HTML leaves the frontier unchanged and ends the future.
C16_ExternalAreLeaves ==
    /\ [](\A k \in 1..Len(queue) :
              queue[k].referrer # None => FetchedPage(queue[k].referrer[1]))
    /\ [](\A i \in Indexes :
              /\ workers[i].referrer # None => FetchedPage(workers[i].referrer[1])
              /\ (workers[i].pc \in {"text", "q_lock", "push"} \/ workers[i].next # <<>>) =>
                    /\ FetchedPage(workers[i].url)
                    /\ workers[i].resp # None
                    /\ ~FailedResponse(workers[i].resp[1]))
    /\ [][\A i \in 1..MaxConcurrent + 1 :
              (i \in Indexes /\ workers[i].pc \in NetworkCalls /\ workers'[i].pc = "done") =>
                  (queue' = queue /\ npushed' = npushed)]_vars
    /\ [][(pc = "wave" /\ queue' # queue) =>
              \E i \in Indexes :
                  /\ workers[i].pc = "push"
                  /\ FetchedPage(workers[i].url)
                  /\ Len(queue') > Len(queue)
                  /\ SubSeq(queue', 1, Len(queue)) = queue
                  /\ \A k \in (Len(queue) + 1)..Len(queue') :
                        queue'[k].referrer = Some(workers[i].url)]_vars

\* The start page was fetched and its links pushed; one of them, an external
\* URL, was checked, nothing else was ever pushed, and the crawl ran to its end.
C16_Witness ==
    /\ pc = "finish"
    /\ \E e \in Events : e[1] = "check" /\ ~Internal(e[2])
    /\ Fetches = 1
    /\ npushed = 1 + MaxLinks
    /\ failed_checks > 0

\* ----------------------------------------------------------------- C17

\* the URLs of the environment
EnvUrls == env.site \cup {a[1] : a \in env.starts \ {Unparsable}}

\* those with a non-root path that does not end in '/', no query and no fragment
PlainUrls ==
    {x \in EnvUrls : /\ x.path # <<"/">>
                     /\ x.path[Len(x.path)] # "/"
                     /\ x.query = None
                     /\ x.fragment = None}

\* x, x/ and x?q#f
Variants(x) ==
    {x, [x EXCEPT !.path = @ \o <<"/">>], [x EXCEPT !.query = Some("q=1"), !.fragment = Some("f")]}

\* how often mark_visited answered one of the given ways for a URL of us
Answers(kinds, us) == Copies({e \in Events : e[1] \in kinds /\ e[2] \in us})

\* C17: normalize_url removes the fragment, the query and the trailing '/'
\* (unless the path is root), so x, x/ and x?q#f have one Visited Key, x:
\* mark_visited reports at most one of them as new, and every later one as
\* already visited.
C17_NormalizationEquivalence ==
    /\ \A x \in PlainUrls :
          /\ \A u \in Variants(x) : normalize_url(u) = x
          /\ Answers(ReturnedFalse, Variants(x)) <= 1
          /\ Answers(ReturnedTrue, Variants(x)) > 0 =>
                (Answers(ReturnedFalse, Variants(x)) = 1 /\ x \in visited)
    /\ \A u \in EnvUrls :
          /\ u.path = <<"/">> => normalize_url(u).path = <<"/">>
          /\ normalize_url(u).query = None
          /\ normalize_url(u).fragment = None
          /\ normalize_url(u).scheme = u.scheme
          /\ normalize_url(u).host = u.host

\* The start URL x?q#f was fetched; the page linked to x and to x/, and both
\* were reported as already visited.
C17_Witness ==
    /\ CopiesIn(<<"fetch", UrlXQF>>, log) = 1
    /\ CopiesIn(<<"AlreadyVisited", UrlX>>, log) > 0
    /\ CopiesIn(<<"AlreadyVisited", UrlXSlash>>, log) > 0
    /\ visited = {UrlX}

\* ----------------------------------------------------------------- C18

Min(a, b) == IF a < b THEN a ELSE b

\* the frontier entry that future i was made from
EntryOf(w) == Entry(w.url, w.referrer, w.born, w.seq)

\* C18: the frontier is a FIFO queue consumed exactly once: it holds the
\* entries pushed and not yet dequeued, oldest first; a drain hands its first
\* min(max_concurrent, length) entries, in order, to one future each; a push
\* appends at the back; and a crawl that runs to completion has dequeued every
\* entry ever pushed.
C18_FifoExactlyOnce ==
    /\ [](/\ Len(queue) = npushed - ndequeued
          /\ \A k \in 1..Len(queue) : queue[k].seq = ndequeued + k
          /\ \A i \in Indexes : workers[i].seq = ndequeued - Len(workers) + i
          /\ pc = "finish" => (queue = <<>> /\ ndequeued = npushed))
    /\ [][ndequeued' # ndequeued =>
              /\ Len(workers') = Min(MaxConcurrent, Len(queue))
              /\ ndequeued' = ndequeued + Len(workers')
              /\ \A i \in 1..Len(workers') : EntryOf(workers'[i]) = queue[i]
              /\ queue' = SubSeq(queue, Len(workers') + 1, Len(queue))]_vars
    /\ [][npushed' # npushed =>
              /\ npushed' > npushed
              /\ Len(queue') = Len(queue) + (npushed' - npushed)
              /\ SubSeq(queue', 1, Len(queue)) = queue]_vars

\* A drain has just taken max_concurrent entries from a longer frontier: the
\* entries left were pushed before the drain and wait for the next one.
C18_Witness ==
    /\ pc = "wave"
    /\ Len(workers) = MaxConcurrent
    /\ \A i \in Indexes : workers[i].pc = "start"
    /\ queue # <<>>
    /\ queue[1].seq = workers[Len(workers)].seq + 1

\* ----------------------------------------------------------------- C19

\* C19: no step of a crawl removes a key from the Visited Set or decreases
\* successful or failed: from one state to the next the Visited Set is a
\* superset of its previous value and each counter is at least its previous
\* value.
C19_MonotoneSharedState ==
    [][/\ visited \subseteq visited'
       /\ successful_checks' >= successful_checks
       /\ failed_checks' >= failed_checks]_vars

\* The crawl is over: three keys were inserted one after the other, and both
\* counters were incremented, successful more than once.
C19_Witness ==
    /\ pc = "done"
    /\ Cardinality(visited) >= 3
    /\ successful_checks >= 2
    /\ failed_checks >= 1

\* ----------------------------------------------------------------- C20

\* the futures of the batch whose network call got a 2xx response
Succeeded == {i \in Indexes : workers[i].resp # None /\ ~FailedResponse(workers[i].resp[1])}

\* the step in which the body read of future i fails
C20_DecodeFailureStep(i) ==
    /\ i \in Indexes
    /\ workers[i].pc = "text"
    /\ workers'[i].ret = "Err"

\* C20: a body decode failure of one entry leaves the other entries of its
\* wave running: the failing step touches no other future, no counter and not
\* the dispatcher, and run_queue returns the error only when every entry of
\* the wave has finished; the URL whose body failed to decode was counted as
\* a success when its response arrived, and stays counted so.
C20_DeferredAbort ==
    /\ [](result = "ErrDecode" =>
            /\ \A i \in Indexes : workers[i].pc = "done"
            /\ \E i \in Indexes : workers[i].ret = "Err"
            /\ successful_checks + failed_checks = Dispatches)
    /\ [](\A i \in Indexes :
            workers[i].ret = "Err" =>
                /\ i \in Succeeded
                /\ CopiesIn(<<"DecodeError", workers[i].url>>, log) = 1
                /\ normalize_url(workers[i].url) \in visited)
    /\ [](successful_checks >= Cardinality(Succeeded))
    /\ [][\A i \in 1..MaxConcurrent + 1 :
            C20_DecodeFailureStep(i) =>
                /\ successful_checks' = successful_checks
                /\ failed_checks' = failed_checks
                /\ pc' = pc /\ result' = result
                /\ queue' = queue /\ visited' = visited
                /\ \A j \in Indexes \ {i} : workers'[j] = workers[j]]_vars
    /\ [][\A i \in 1..MaxConcurrent + 1 :
            (i \in Indexes /\ workers[i].pc = "fetch" /\ workers'[i].pc = "text") =>
                /\ successful_checks' = successful_checks + 1
                /\ failed_checks' = failed_checks]_vars

\* The body read of one entry has failed; another entry of the same wave went
\* on, got its page and is about to push its links to the frontier.
C20_Witness ==
    /\ pc = "wave"
    /\ \E i, j \in Indexes :
          /\ workers[i].ret = "Err"
          /\ workers[j].pc = "push"
          /\ workers[j].next # <<>>
    /\ successful_checks >= 3

\* ----------------------------------------------------------------- C21

\* the mutexes future i holds
Held(i) ==
    (IF pb_lock = i THEN {"progress_bar"} ELSE {})
      \cup (IF visited_lock = i THEN {"visited"} ELSE {})
      \cup (IF queue_lock = i THEN {"queue"} ELSE {})

\* the holder of the mutex future i is about to lock (0: it is about to lock none)
AwaitedHolder(i) ==
    CASE workers[i].pc = "start" -> pb_lock
      [] workers[i].pc = "mv_lock" -> visited_lock
      [] workers[i].pc = "q_lock" -> queue_lock
      [] OTHER -> 0

\* future i is blocked on a mutex
Blocked(i) == i \in Indexes /\ AwaitedHolder(i) # 0

\* C21: a mutex is held only by a future of the current wave, inside the block
\* that locked it: the holder holds no other mutex, is not suspended on a
\* network call and can always take the step that releases it; the dispatcher
\* finds every mutex free; and under any interleaving a future blocked on a
\* mutex gets past it.
C21_DeadlockFree ==
    /\ []({pb_lock, visited_lock, queue_lock} \subseteq {0} \cup Indexes)
    /\ [](pc # "wave" => (pb_lock = 0 /\ visited_lock = 0 /\ queue_lock = 0))
    /\ [](\A i \in Indexes :
            /\ Cardinality(Held(i)) <= 1
            /\ "progress_bar" \in Held(i) <=> workers[i].pc = "pb"
            /\ "visited" \in Held(i) <=> workers[i].pc \in {"mv_contains", "mv_insert"}
            /\ "queue" \in Held(i) <=> workers[i].pc = "push"
            /\ workers[i].pc \in {"fetch", "text", "check", "done"} => Held(i) = {}
            /\ AwaitedHolder(i) # i
            /\ Held(i) # {} => ENABLED WorkerStep(i))
    /\ \A i \in 1..MaxConcurrent + 1 : Blocked(i) ~> ~Blocked(i)

\* A future holds the progress bar mutex and nothing else, while another
\* future of the same wave is blocked on that mutex.
C21_Witness ==
    /\ pc = "wave"
    /\ wave > 1
    /\ \E i, j \in Indexes :
          /\ i # j
          /\ Held(i) = {"progress_bar"}
          /\ Blocked(j)
          /\ AwaitedHolder(j) = i

====
